---------------------------- MODULE Spec2Model ----------------------------
(***************************************************************************)
(* A model of the Pqos binding class of lib/python/pqos/pqos.py: the       *)
(* process-wide singleton (Pqos.__new__ / Pqos.__init__), the three        *)
(* operations init, fini and get_sysconfig, the log-callback trampoline    *)
(* built by init, and the native library as far as the binding observes    *)
(* it (status codes, the registered log callback, log messages).           *)
(*                                                                         *)
(* Python values:                                                          *)
(*   - a str is a tuple of one-character strings, so that upper() and      *)
(*     lower() are computed character by character;                        *)
(*   - an argument that may be None and is otherwise a str or an int is    *)
(*     a set: {} is None, {v} is the value v;                              *)
(*   - opaque objects (file objects, callables, contexts) are strings,     *)
(*     with "None" for None.                                               *)
(***************************************************************************)
EXTENDS Integers, Sequences, FiniteSets

\* ------------------------------------------------------------------ bounds

\* Pqos() constructions attempted in one run.
MaxCtor == 2
\* Log messages the native library emits during one pqos_init call.
MaxLogs == 2

\* ------------------------------------------------------- program constants

LOG_VER_SILENT == -1
LOG_VER_DEFAULT == 0
LOG_VER_VERBOSE == 1
LOG_VER_SUPER_VERBOSE == 2

\* sys.stdout.fileno()
StdoutFd == 1
\* fileno() of the caller's log file
LogFileFd == 3

\* ----------------------------------------------------------------- strings

LowerLetters == <<"a","b","c","d","e","f","g","h","i","j","k","l","m",
                  "n","o","p","q","r","s","t","u","v","w","x","y","z">>
UpperLetters == <<"A","B","C","D","E","F","G","H","I","J","K","L","M",
                  "N","O","P","Q","R","S","T","U","V","W","X","Y","Z">>

UpperChar(c) ==
    LET at == {i \in 1..26 : LowerLetters[i] = c}
    IN  IF at # {} THEN UpperLetters[CHOOSE i \in at : TRUE] ELSE c

LowerChar(c) ==
    LET at == {i \in 1..26 : UpperLetters[i] = c}
    IN  IF at # {} THEN LowerLetters[CHOOSE i \in at : TRUE] ELSE c

\* str.upper()
Upper(s) == [i \in 1..Len(s) |-> UpperChar(s[i])]
\* str.lower()
Lower(s) == [i \in 1..Len(s) |-> LowerChar(s[i])]

S_MSR == <<"M","S","R">>
S_OS == <<"O","S">>
S_OS_RESCTRL_MON == <<"O","S","_","R","E","S","C","T","R","L","_","M","O","N">>
S_AUTO == <<"A","U","T","O">>

S_default == <<"d","e","f","a","u","l","t">>
S_silent == <<"s","i","l","e","n","t">>
S_verbose == <<"v","e","r","b","o","s","e">>
S_super == <<"s","u","p","e","r">>

\* ------------------------------------------------------------------ inputs

Interfaces ==
    { S_MSR, <<"m","s","r">>, <<"O","s">>,
      <<"o","s","_","R","E","S","C","T","R","L","_","m","o","n">>,
      <<"A","u","t","o">>, <<"m","s","r","x">> }

Verboses ==
    { {}, {S_default}, {<<"S","i","l","e","n","t">>}, {S_verbose},
      {<<"S","U","P","E","R">>}, {<<"l","o","u","d">>} }

LogFiles == {"None", "logfile"}
LogCallbacks == {"None", "cb1"}
LogContexts == {"None", "ctx1"}

\* Status codes a native entry point may return (0 is success).
NativeRets == {0, 1}

\* Log messages of the native library, with their sizes.
Messages == {"msg"}
MsgSize(m) == 3

RECURSIVE SeqsUpTo(_, _)
SeqsUpTo(S, n) ==
    IF n = 0 THEN {<<>>}
    ELSE LET shorter == SeqsUpTo(S, n - 1)
         IN  shorter \cup {Append(q, x) : q \in {t \in shorter : Len(t) = n - 1}, x \in S}

\* ------------------------------------------------- helpers of Pqos.init

\* A chain whose final else falls back to AUTO instead of raising.
InterfaceSelectorNoRaise(interface) ==
    LET upper == Upper(interface)
    IN  IF upper = S_MSR THEN {"PQOS_INTER_MSR"}
        ELSE IF upper = S_OS THEN {"PQOS_INTER_OS"}
        ELSE IF upper = S_OS_RESCTRL_MON THEN {"PQOS_INTER_OS_RESCTRL_MON"}
        ELSE {"PQOS_INTER_AUTO"}

\* The interface selector of the if/elif chain on interface.upper();
\* {} when the chain ends in raise ValueError.
InterfaceSelector(interface) ==
    LET upper == Upper(interface)
    IN  IF upper = S_MSR THEN {"PQOS_INTER_MSR"}
        ELSE IF upper = S_OS THEN {"PQOS_INTER_OS"}
        ELSE IF upper = S_OS_RESCTRL_MON THEN {"PQOS_INTER_OS_RESCTRL_MON"}
        ELSE IF upper = S_AUTO THEN {"PQOS_INTER_AUTO"}
        ELSE {}

\* A resolution that never falls back to sys.stdout.
ResolveLogFileNoDefault(log_file, log_callback) == log_file

\* A resolution whose condition reads "or" for "and".
ResolveLogFileOr(log_file, log_callback) ==
    IF log_file = "None" \/ log_callback = "None" THEN "stdout" ELSE log_file

\* if not log_file and not log_callback: log_file = sys.stdout
ResolveLogFile(log_file, log_callback) ==
    IF log_file = "None" /\ log_callback = "None" THEN "stdout" ELSE log_file

\* file.fileno()
Fileno(f) == IF f = "stdout" THEN StdoutFd ELSE LogFileFd

\* cfg_fd_log = log_file.fileno() if log_file else None
FdLog(log_file) == IF log_file # "None" THEN {Fileno(log_file)} ELSE {}

\* CPqosConfig.LOG_CALLBACK(0): the null function pointer
NullCallback == [null |-> TRUE, callback |-> "None"]

\* pqos_log_callback_wrapper(callback) turned into a native function pointer:
\* the closure keeps the caller's callback.
WrappedCallback(log_callback) == [null |-> FALSE, callback |-> log_callback]

\* cfg_callback_log
CallbackLog(log_callback) ==
    IF log_callback # "None" THEN WrappedCallback(log_callback) ELSE NullCallback

\* A trampoline that forwards its arguments in the native order.
cpqos_log_callback_swapped(callback, context, size, message) ==
    [fn |-> callback, args |-> <<context, message>>]

\* The call the trampoline makes when the native library invokes it:
\* return callback(message, context)
cpqos_log_callback(callback, context, size, message) ==
    [fn |-> callback, args |-> <<message, context>>]

\* A chain that compares verbose without lower().
VerboseLevelCaseSensitive(verbose) ==
    IF verbose = {} THEN {LOG_VER_DEFAULT}
    ELSE LET v == CHOOSE s \in verbose : TRUE
         IN  IF v = S_default THEN {LOG_VER_DEFAULT}
             ELSE IF v = S_silent THEN {LOG_VER_SILENT}
             ELSE IF v = S_verbose THEN {LOG_VER_VERBOSE}
             ELSE IF v = S_super THEN {LOG_VER_SUPER_VERBOSE}
             ELSE {}

\* The verbosity level of the if/elif chain on verbose; {} when the chain
\* ends in raise ValueError.
VerboseLevel(verbose) ==
    IF verbose = {} THEN {LOG_VER_DEFAULT}
    ELSE LET v == Lower(CHOOSE s \in verbose : TRUE)
         IN  IF v = S_default THEN {LOG_VER_DEFAULT}
             ELSE IF v = S_silent THEN {LOG_VER_SILENT}
             ELSE IF v = S_verbose THEN {LOG_VER_VERBOSE}
             ELSE IF v = S_super THEN {LOG_VER_SUPER_VERBOSE}
             ELSE {}

\* config = CPqosConfig(interface=..., fd_log=..., callback_log=...,
\*                      verbose=..., context_log=..., reserved=0)
CPqosConfig(cfg_interface, cfg_fd_log, cfg_callback_log, cfg_verbose, log_context) ==
    [interface |-> cfg_interface, fd_log |-> cfg_fd_log,
     callback_log |-> cfg_callback_log, verbose |-> cfg_verbose,
     context_log |-> log_context, reserved |-> 0]

\* pqos_handle_error(func_name, retval): {} when it returns, the raised
\* error otherwise.
pqos_handle_error(func_name, retval) ==
    IF retval # 0 THEN {[name |-> func_name, code |-> retval]} ELSE {}

\* References to the trampoline that the binding layer still holds once init
\* has returned: wrapped_callback, cfg_callback_log and config are locals of
\* init and nothing is stored on self or on the class.
RetainedAfterInit(cfg_callback_log) == {}

\* A __new__ without the "instance is None" test.
NewAlways(registered, fresh) == fresh

\* Pqos.__new__: the registered instance after the call, given the registered
\* instance before it and the object object.__new__ would allocate.
New(registered, fresh) == IF registered = 0 THEN fresh ELSE registered

\* ------------------------------------------------------------------- state

VARIABLES
    args,         \* the arguments the program passes to Pqos.init: any
                  \* combination, the same at every init call of a run
    instance,     \* Pqos._instance: 0 for None, else the object's identity
    nObjs,        \* objects allocated by object.__new__ so far
    lib,          \* self.lib of the instance: 0 when the attribute is unset,
                  \* else the identity of the CDLL object
    loadCalls,    \* calls of ctypes.cdll.LoadLibrary so far
    nCtor,        \* Pqos() constructions attempted so far
    returned,     \* the handles that Pqos() constructions have returned
    phase,        \* 0: no construction has returned; 1: one has; 2: init was
                  \* called since; 3: fini was called after that init
    nativeInit,   \* the native library holds an initialized session
    regCallback,  \* the log callback pointer the native session holds
    regContext,   \* the context the native session passes to the callback
    owned,        \* trampolines that some Python object still references
    lastCall      \* the last operation: native calls made, outcome

vars == <<args, instance, nObjs, lib, loadCalls, nCtor, returned, phase,
          nativeInit, regCallback, regContext, owned, lastCall>>

NoCall ==
    [op |-> "none", native |-> <<>>, ret |-> 0, config |-> {},
     trampolineCalls |-> <<>>, callbackCalls |-> <<>>,
     outcome |-> "ok", error |-> {}, result |-> 0]

\* The process is gone once a call through a dangling pointer has crashed it.
Alive == lastCall.outcome # "crash"

Init ==
    /\ args \in [interface : Interfaces, log_file : LogFiles,
                 log_callback : LogCallbacks, log_context : LogContexts,
                 verbose : Verboses]
    /\ instance = 0
    /\ nObjs = 0
    /\ lib = 0
    /\ loadCalls = 0
    /\ nCtor = 0
    /\ returned = {}
    /\ phase = 0
    /\ nativeInit = FALSE
    /\ regCallback = NullCallback
    /\ regContext = "None"
    /\ owned = {}
    /\ lastCall = NoCall

\* ----------------------------------------------------------------- actions

\* Pqos(): type.__call__ runs Pqos.__new__, then Pqos.__init__ on the object
\* __new__ returned. LoadLibrary either returns a new CDLL object or raises
\* OSError, in which case self.lib is not assigned.
Construct ==
    /\ Alive
    /\ nCtor < MaxCtor
    /\ \E loadOk \in BOOLEAN :
        LET self == New(instance, nObjs + 1)
        IN  /\ instance' = self
            /\ nObjs' = IF self = instance THEN nObjs ELSE nObjs + 1
            /\ loadCalls' = loadCalls + 1
            /\ nCtor' = nCtor + 1
            /\ IF loadOk
               THEN /\ lib' = loadCalls + 1
                    /\ returned' = returned \cup {self}
                    /\ phase' = IF phase = 0 THEN 1 ELSE phase
                    /\ lastCall' = [NoCall EXCEPT !.op = "Pqos", !.result = self]
               ELSE /\ lib' = lib
                    /\ returned' = returned
                    /\ phase' = phase
                    /\ lastCall' = [NoCall EXCEPT !.op = "Pqos", !.outcome = "OSError"]
    /\ UNCHANGED <<args, nativeInit, regCallback, regContext, owned>>

\* What the native library does during pqos_init(config): it may log through
\* config.callback_log, which is alive while init runs.
TrampolineCalls(config, logs) ==
    IF config.callback_log.null THEN <<>>
    ELSE [i \in 1..Len(logs) |->
            [context |-> config.context_log, size |-> MsgSize(logs[i]),
             message |-> logs[i]]]

\* The calls of the caller's callback that a sequence of trampoline
\* invocations makes.
CallbackCalls(cfg_callback_log, invocations) ==
    [i \in 1..Len(invocations) |->
        cpqos_log_callback(cfg_callback_log.callback, invocations[i].context,
                           invocations[i].size, invocations[i].message)]

\* Pqos.init(interface, log_file, log_callback, log_context, verbose)
init ==
    /\ Alive
    /\ instance # 0
    /\ LET cfg_interface == InterfaceSelector(args.interface)
           log_file == ResolveLogFile(args.log_file, args.log_callback)
           cfg_fd_log == FdLog(log_file)
           cfg_callback_log == CallbackLog(args.log_callback)
           cfg_verbose == VerboseLevel(args.verbose)
           config == CPqosConfig(CHOOSE x \in cfg_interface : TRUE, cfg_fd_log,
                                 cfg_callback_log,
                                 CHOOSE x \in cfg_verbose : TRUE, args.log_context)
           call == [NoCall EXCEPT !.op = "init"]
       IN  IF cfg_interface = {} \/ cfg_verbose = {}
           THEN /\ lastCall' = [call EXCEPT !.outcome = "ValueError"]
                /\ UNCHANGED <<nativeInit, regCallback, regContext, owned>>
           ELSE IF lib = 0
           THEN /\ lastCall' = [call EXCEPT !.outcome = "AttributeError",
                                            !.config = {config}]
                /\ UNCHANGED <<nativeInit, regCallback, regContext, owned>>
           ELSE \E ret \in NativeRets, logs \in SeqsUpTo(Messages, MaxLogs) :
                LET invocations == TrampolineCalls(config, logs)
                    error == pqos_handle_error("pqos_init", ret)
                IN  /\ cfg_callback_log.null => logs = <<>>
                    /\ lastCall' =
                         [call EXCEPT !.native = <<"pqos_init">>,
                                      !.ret = ret,
                                      !.config = {config},
                                      !.trampolineCalls = invocations,
                                      !.callbackCalls =
                                          CallbackCalls(cfg_callback_log, invocations),
                                      !.error = error,
                                      !.outcome = IF error = {} THEN "ok" ELSE "PqosError"]
                    /\ nativeInit' = (nativeInit \/ ret = 0)
                    /\ regCallback' = IF ret = 0 THEN cfg_callback_log ELSE regCallback
                    /\ regContext' = IF ret = 0 THEN args.log_context ELSE regContext
                    /\ owned' = (owned \ {cfg_callback_log})
                                  \cup RetainedAfterInit(cfg_callback_log)
    /\ phase' = IF phase = 1 THEN 2 ELSE phase
    /\ UNCHANGED <<args, instance, nObjs, lib, loadCalls, nCtor, returned>>

\* Pqos.fini()
fini ==
    /\ Alive
    /\ instance # 0
    /\ IF lib = 0
       THEN /\ lastCall' = [NoCall EXCEPT !.op = "fini", !.outcome = "AttributeError"]
            /\ UNCHANGED <<nativeInit, regCallback, regContext>>
       ELSE \E ret \in NativeRets :
            LET error == pqos_handle_error("pqos_fini", ret)
            IN  /\ lastCall' =
                     [NoCall EXCEPT !.op = "fini",
                                    !.native = <<"pqos_fini">>,
                                    !.ret = ret,
                                    !.error = error,
                                    !.outcome = IF error = {} THEN "ok" ELSE "PqosError"]
                /\ nativeInit' = (nativeInit /\ ret # 0)
                /\ regCallback' = IF ret = 0 THEN NullCallback ELSE regCallback
                /\ regContext' = IF ret = 0 THEN "None" ELSE regContext
    /\ phase' = IF phase = 2 THEN 3 ELSE phase
    /\ UNCHANGED <<args, instance, nObjs, lib, loadCalls, nCtor, returned, owned>>

\* Pqos.get_sysconfig()
get_sysconfig ==
    /\ Alive
    /\ instance # 0
    /\ IF lib = 0
       THEN lastCall' = [NoCall EXCEPT !.op = "get_sysconfig",
                                       !.outcome = "AttributeError"]
       ELSE \E ret \in NativeRets :
            LET error == pqos_handle_error("pqos_get_sysconfig", ret)
            IN  lastCall' =
                    [NoCall EXCEPT !.op = "get_sysconfig",
                                   !.native = <<"pqos_sysconfig_get">>,
                                   !.ret = ret,
                                   !.error = error,
                                   !.outcome = IF error = {} THEN "ok" ELSE "PqosError"]
    /\ UNCHANGED <<args, instance, nObjs, lib, loadCalls, nCtor, returned, phase,
                   nativeInit, regCallback, regContext, owned>>

\* The native library logs a message after pqos_init has returned: it calls
\* the callback pointer its session holds. If no Python object references the
\* trampoline any more, ctypes has freed it and the call goes through a
\* dangling pointer: the callback may still run, run with garbage, or the
\* process may crash.
NativeLog ==
    /\ Alive
    /\ nativeInit
    /\ ~regCallback.null
    /\ \E m \in Messages :
        LET invocation == [context |-> regContext, size |-> MsgSize(m), message |-> m]
            call == [NoCall EXCEPT !.op = "native_log"]
        IN  IF regCallback \in owned
            THEN lastCall' =
                    [call EXCEPT !.trampolineCalls = <<invocation>>,
                                 !.callbackCalls =
                                     CallbackCalls(regCallback, <<invocation>>)]
            ELSE \E outcome \in {"stale_thunk_ran", "garbage", "crash"} :
                    lastCall' = [call EXCEPT !.outcome = outcome]
    /\ UNCHANGED <<args, instance, nObjs, lib, loadCalls, nCtor, returned, phase,
                   nativeInit, regCallback, regContext, owned>>

Next == Construct \/ init \/ fini \/ get_sysconfig \/ NativeLog

Spec == Init /\ [][Next]_vars

\* ------------------------------------------------------------------ claims

ValidInterfaces == {S_MSR, S_OS, S_OS_RESCTRL_MON, S_AUTO}

\* C1: every Pqos() construction that returns, returns the one handle that
\* the first construction returned, and that handle stays the registered
\* singleton whatever init and fini calls (succeeding or raising) intervene.
C1_SingletonIdentity ==
    /\ Cardinality(returned) <= 1
    /\ returned # {} => returned = {instance}
    /\ (lastCall.op = "Pqos" /\ lastCall.outcome = "ok") => lastCall.result = instance

\* A second construction has returned after an init call and a later fini call.
C1_Witness ==
    /\ lastCall.op = "Pqos"
    /\ lastCall.outcome = "ok"
    /\ nCtor >= 2
    /\ phase = 3

\* C2: an init call whose interface, compared case-insensitively, is none of
\* MSR, OS, OS_RESCTRL_MON, AUTO raises ValueError and invokes no native
\* entry point, whatever the other arguments are.
C2_InvalidInterfaceRaises ==
    (lastCall.op = "init" /\ Lower(args.interface) \notin {Lower(s) : s \in ValidInterfaces})
        => /\ lastCall.outcome = "ValueError"
           /\ lastCall.native = <<>>

C2_Witness ==
    /\ lastCall.op = "init"
    /\ args.interface = <<"m","s","r","x">>
    /\ args.log_callback # "None"
    /\ lastCall.outcome = "ValueError"

\* The level the claim gives for a verbose argument; {} where it says the
\* call raises.
ClaimedLevel(verbose) ==
    IF verbose = {} THEN {LOG_VER_DEFAULT}
    ELSE LET v == CHOOSE s \in verbose : TRUE
         IN  IF Upper(v) = Upper(S_silent) THEN {LOG_VER_SILENT}
             ELSE IF Upper(v) = Upper(S_default) THEN {LOG_VER_DEFAULT}
             ELSE IF Upper(v) = Upper(S_verbose) THEN {LOG_VER_VERBOSE}
             ELSE IF Upper(v) = Upper(S_super) THEN {LOG_VER_SUPER_VERBOSE}
             ELSE {}

\* C3: with a valid interface, init builds a configuration record whose
\* verbosity level is LOG_VER_SILENT for 'silent', LOG_VER_DEFAULT for
\* 'default' or None, LOG_VER_VERBOSE for 'verbose', LOG_VER_SUPER_VERBOSE
\* for 'super', in any letter case; for any other string it raises
\* ValueError and does not invoke pqos_init.
C3_VerboseMapping ==
    (lastCall.op = "init" /\ Upper(args.interface) \in ValidInterfaces)
        => IF ClaimedLevel(args.verbose) # {}
           THEN /\ lastCall.config # {}
                /\ \A c \in lastCall.config : {c.verbose} = ClaimedLevel(args.verbose)
                /\ lastCall.outcome # "ValueError"
           ELSE /\ lastCall.outcome = "ValueError"
                /\ lastCall.native = <<>>

\* pqos_init has received a record built from verbose = 'SUPER'.
C3_Witness ==
    /\ lastCall.op = "init"
    /\ args.verbose = {<<"S","U","P","E","R">>}
    /\ lastCall.native = <<"pqos_init">>
    /\ \E c \in lastCall.config : c.verbose = LOG_VER_SUPER_VERBOSE

\* C4: when the native entry point that init, fini or get_sysconfig invokes
\* returns a non-zero status, the operation raises an error carrying the
\* name of the entry point that was invoked and the raw status, after
\* exactly one native call.
C4_ErrorNamesNativeCall ==
    (Len(lastCall.native) > 0 /\ lastCall.ret # 0)
        => /\ lastCall.outcome = "PqosError"
           /\ Len(lastCall.native) = 1
           /\ lastCall.error # {}
           /\ \A e \in lastCall.error :
                 e.name = lastCall.native[1] /\ e.code = lastCall.ret

\* C5: every invocation of the registered trampoline with (context C, size N,
\* message M) makes exactly one call of the caller's log_callback, with the
\* arguments (M, C).
C5_TrampolineForwards ==
    Len(lastCall.trampolineCalls) > 0
        => /\ Len(lastCall.callbackCalls) = Len(lastCall.trampolineCalls)
           /\ \A i \in 1..Len(lastCall.trampolineCalls) :
                 lastCall.callbackCalls[i] =
                     [fn |-> args.log_callback,
                      args |-> <<lastCall.trampolineCalls[i].message,
                                 lastCall.trampolineCalls[i].context>>]

\* The native library has invoked the trampoline twice with a context.
C5_Witness ==
    /\ lastCall.op = "init"
    /\ Len(lastCall.trampolineCalls) = 2
    /\ lastCall.trampolineCalls[1].context = "ctx1"
    /\ Len(lastCall.callbackCalls) = 2

\* C6: when init is called with neither log_file nor log_callback, the
\* record passed to pqos_init has the standard-output descriptor as its file
\* descriptor and a null log callback.
C6_DefaultsToStdout ==
    (/\ lastCall.op = "init"
     /\ lastCall.native = <<"pqos_init">>
     /\ args.log_file = "None"
     /\ args.log_callback = "None")
        => /\ lastCall.config # {}
           /\ \A c \in lastCall.config :
                 c.fd_log = {StdoutFd} /\ c.callback_log = NullCallback

C6_Witness ==
    /\ lastCall.op = "init"
    /\ lastCall.native = <<"pqos_init">>
    /\ args.log_file = "None"
    /\ args.log_callback = "None"
    /\ lastCall.outcome = "ok"

FdSet(c) == c.fd_log # {}
CallbackSet(c) == ~c.callback_log.null

\* C7 as stated: the record passed to pqos_init has exactly one of the file
\* descriptor and the log callback set, for every combination of log_file
\* and log_callback.
C7_ExactlyOneSet ==
    (lastCall.op = "init" /\ lastCall.native = <<"pqos_init">>)
        => \A c \in lastCall.config : FdSet(c) # CallbackSet(c)

\* C7 as amended: the record passed to pqos_init never has both unset, and
\* has both set exactly when the caller supplied both log_file and
\* log_callback; in every other case exactly one is set.
C7_AtLeastOneSet ==
    (lastCall.op = "init" /\ lastCall.native = <<"pqos_init">>)
        => /\ lastCall.config # {}
           /\ \A c \in lastCall.config :
                 /\ FdSet(c) \/ CallbackSet(c)
                 /\ (FdSet(c) /\ CallbackSet(c))
                       <=> (args.log_file # "None" /\ args.log_callback # "None")

\* pqos_init has received a record built from a log file and a callback.
C7_Witness ==
    /\ lastCall.op = "init"
    /\ lastCall.native = <<"pqos_init">>
    /\ args.log_file # "None"
    /\ args.log_callback # "None"
    /\ \E c \in lastCall.config : FdSet(c) /\ CallbackSet(c)

\* C8: while the native session is initialized with a registered log
\* callback, some object of the binding layer still references the trampoline.
C8_TrampolinePinned ==
    (nativeInit /\ ~regCallback.null) => regCallback \in owned

\* C9: over any sequence of constructions the native library is loaded at
\* most once.
C9_LoadedAtMostOnce == loadCalls <= 1

\* C10: a registered singleton holds a loaded library reference.
C10_RegisteredHasLibrary == instance # 0 => lib # 0

=============================================================================
